---- MODULE Spec2Model ----
(***************************************************************************)
(* A model of app.py, the Streamlit script of the Smart Consent System.    *)
(*                                                                         *)
(* A Streamlit session runs the whole script top to bottom on every user   *)
(* event (page load, widget change, button press).  Every action below is  *)
(* one such run: the history initialisation, the handler of the pressed    *)
(* button, the decoding of the uploaded file and the history panel.        *)
(*                                                                         *)
(* A string is a sequence of one-character strings where its characters    *)
(* matter (responses, documents, prompts), and string literals of the      *)
(* script are kept as single chunks of such a sequence.                    *)
(***************************************************************************)
EXTENDS Integers, Sequences, FiniteSets, TLC

VARIABLES
    session_state,   \* st.session_state: a mapping, "history" |-> list of records
    files,           \* the working directory: file name |-> PDF document written
    now,             \* the wall clock, in ticks
    uploaded_file,   \* the value of the file_uploader widget
    ui,              \* what the last script run rendered
    calls            \* the requests the remote service received in the last run

vars == <<session_state, files, now, uploaded_file, ui, calls>>

----------------------------------------------------------------------------
(* Bounds of the model *)

MaxHistory == 2      \* successful completions in one session
MaxClock == 3        \* last tick of the wall clock
TicksPerSecond == 2  \* clock resolution: instants per wall-clock second
MaxLines == 40       \* lines of the longest response
MaxWidth == 92       \* characters of the widest response line

(* Constants of the script *)

PageTop == 750       \* y_position = 750
LineStep == 20       \* y_position -= 20
LeftMargin == 100    \* c.drawString(100, ...)
LineWidth == 90      \* line[:90]
PageBottom == 0      \* lower edge of the letter page, in points
PageHeight == 792    \* upper edge of the letter page, in points
MaxTokens == 1024    \* max_tokens=1024

None == "(none)"

Min(a, b) == IF a < b THEN a ELSE b

----------------------------------------------------------------------------
(* Input domains *)

Languages == {"English", "Spanish", "French", "German", "Chinese"}
Compliances == {"GDPR", "HIPAA", "CCPA", "None"}

Chars == <<"a", "b", "c", "d", "e", "f", "g">>
CharAt(i) == Chars[(i % 7) + 1]

\* The text of n >= 1 lines of w characters each, joined by line breaks.
Text(n, w) ==
    [p \in 1..(n * (w + 1) - 1) |->
        IF (p - 1) % (w + 1) = w THEN "\n"
        ELSE CharAt(((p - 1) \div (w + 1)) + ((p - 1) % (w + 1)))]

\* Responses of the remote service: the empty one and a two-line one for the
\* runs of a session; every height up to MaxLines and widths around the line
\* limit for the export of a single response.
Responses == {Text(1, 0), Text(2, 1)}
ExportTexts ==
    {Text(n, w) : n \in 1..MaxLines, w \in 0..1}
        \cup {Text(n, w) : n \in 1..2, w \in (LineWidth - 1)..MaxWidth}

Errors == {"Connection error.", "Error code: 401"}
DiskError == "[Errno 28] No space left on device"

\* What one call of the remote service can come to.
Succeeds(texts) == [ok : {TRUE}, content : texts]
Fails(errors) == [ok : {FALSE}, error : errors]
Outcomes == Succeeds(Responses) \cup Fails(Errors)

DefaultPrompt == <<"Generate a consent agreement for medical research.">>
Prompts == {DefaultPrompt, Text(2, 1), Text(1, 0)}

\* The value of the uploader: no file, or a file with its text when the bytes
\* are UTF-8.
NoFile == [present |-> FALSE, utf8 |-> FALSE, text |-> <<>>]
Uploads ==
    {[present |-> TRUE, utf8 |-> TRUE, text |-> Text(2, 1)],
     [present |-> TRUE, utf8 |-> FALSE, text |-> <<>>]}

----------------------------------------------------------------------------
(* datetime formatting: both formats have a resolution of one second *)

strftime(t) == t \div TicksPerSecond

----------------------------------------------------------------------------
(* save_as_pdf *)

\* text.split("\n"), from position start: the text up to the next line break,
\* then the split of what follows it
RECURSIVE SplitFrom(_, _)
SplitFrom(text, start) ==
    LET breaks == {i \in start..Len(text) : text[i] = "\n"}
    IN  IF breaks = {} THEN <<SubSeq(text, start, Len(text))>>
        ELSE LET next == CHOOSE i \in breaks : \A k \in breaks : i <= k
             IN  <<SubSeq(text, start, next - 1)>> \o SplitFrom(text, next + 1)

\* a split that drops the empty lines
splitNonEmpty(text) == SelectSeq(SplitFrom(text, 1), LAMBDA line : line # <<>>)

split(text) == SplitFrom(text, 1)

\* a truncation that is one character short
TruncateShort(line) == SubSeq(line, 1, Min(Len(line), LineWidth - 1))

\* line[:90]
Truncate(line) == SubSeq(line, 1, Min(Len(line), LineWidth))

\* c.drawString(x, y, s): one more text operation in the current page
drawString(canvas, x, y, s) ==
    [canvas EXCEPT !.code = Append(@, [x |-> x, y |-> y, text |-> s])]

\* the for loop of save_as_pdf, from line i with the cursor at y_position
RECURSIVE DrawLoop(_, _, _, _)
DrawLoop(canvas, lines, i, y_position) ==
    IF i > Len(lines) THEN canvas
    ELSE DrawLoop(drawString(canvas, LeftMargin, y_position, Truncate(lines[i])),
                  lines, i + 1, y_position - LineStep)

\* c.save(): the page under construction is closed when it holds anything
save(canvas) ==
    IF canvas.code # <<>> THEN Append(canvas.pages, canvas.code) ELSE canvas.pages

\* f"{filename}_{now:%Y%m%d_%H%M%S}.pdf"
PdfFilename(filename, t) == <<filename, strftime(t)>>

\* save_as_pdf(text, filename) at instant t: the file name and the pages written
save_as_pdf(text, filename, t) ==
    [name |-> PdfFilename(filename, t),
     pages |-> save(DrawLoop([pages |-> <<>>, code |-> <<>>], split(text), 1, PageTop))]

----------------------------------------------------------------------------
(* The remote completion service *)

\* an invocation that sends the request again when it fails
createRetry(request, outcome) ==
    IF outcome.ok THEN <<[request |-> request, outcome |-> outcome]>>
    ELSE <<[request |-> request, outcome |-> outcome],
           [request |-> request, outcome |-> outcome]>>

\* client.chat.completions.create(...): the requests one invocation sends,
\* each with what the service answered
create(request, outcome) == <<[request |-> request, outcome |-> outcome]>>

\* messages that leave the selected language out
GenerateMessagesEnglish(language, compliance, user_prompt) ==
    <<[role |-> "system",
       content |-> <<"You are a legal AI assistant. Generate a consent agreement in ",
                     "English", ", ensuring compliance with ", compliance, ".">>],
      [role |-> "user", content |-> user_prompt]>>

\* messages of the Generate Consent Agreement handler
GenerateMessages(language, compliance, user_prompt) ==
    <<[role |-> "system",
       content |-> <<"You are a legal AI assistant. Generate a consent agreement in ",
                     language, ", ensuring compliance with ", compliance, ".">>],
      [role |-> "user", content |-> user_prompt]>>

\* messages of the Analyze Document handler
AnalyzeMessages(extracted_text) ==
    <<[role |-> "system",
       content |-> <<"You are an AI-powered document analysis assistant.">>],
      [role |-> "user",
       content |-> <<"Analyze the following document and provide: 1. A summary of the document. 2. Key legal risks and compliance issues. 3. Recommendations for improvements. Document:">>
                   \o extracted_text \o <<"\n">>]>>

\* messages of the DeepSeek Insights handler
InsightsMessages(extracted_text) ==
    <<[role |-> "system",
       content |-> <<"You are an AI assistant simplifying legal documents.">>],
      [role |-> "user",
       content |-> <<"Explain this document in simple terms for someone unfamiliar with legal language. Provide an easy-to-understand summary and its key implications. Document:">>
                   \o extracted_text \o <<"\n">>]>>

Request(model, messages) ==
    [model |-> model, messages |-> messages, temperature |-> "0.7",
     max_tokens |-> MaxTokens]

----------------------------------------------------------------------------
(* The try blocks of the three handlers.  A block works on a record        *)
(*   history, files      the session history and the directory             *)
(*   success, shown, downloads, errors    what the run has rendered        *)
(*   raised              the exception leaving the block, None when none    *)

Rendering(history, fs) ==
    [history |-> history, files |-> fs, success |-> <<>>, shown |-> <<>>,
     downloads |-> <<>>, errors |-> <<>>, raised |-> None]

\* st.session_state.history.append({"timestamp": ..., "response": response})
StoreInHistory(history, t, response) ==
    Append(history, [timestamp |-> strftime(t), response |-> response])

\* st.error(f"... Error: {str(e)}")
ErrorMessage(e) == <<"Error: ", e>>

\* a handler without its except clause: the exception leaves the block
ExceptReraise(r0, r, e) == [r EXCEPT !.raised = e]

\* an except clause that undoes what the block did
ExceptRollback(r0, r, e) ==
    [r0 EXCEPT !.errors = Append(@, <<"Error: ", e>>), !.raised = None]

\* except Exception as e: entered with r0, the record on entry of the try
\* block, and r, the record where the exception was raised
Except(r0, r, e) == [r EXCEPT !.errors = Append(@, ErrorMessage(e)), !.raised = None]

\* the success message, the result text area and the history record
Completed(r, message, response, t1) ==
    [r EXCEPT !.success = Append(@, message),
              !.shown = Append(@, response),
              !.history = StoreInHistory(@, t1, response)]

\* the two download buttons: the text one, then save_as_pdf, open(pdf_file)
\* and the PDF one; disk tells whether the file can be written and read back
Downloads(r0, r, response, txt_name, pdf_stem, t2, disk) ==
    LET txt == [file_name |-> txt_name, mime |-> "text/plain", data |-> response]
        pdf == save_as_pdf(response, pdf_stem, t2)
        r1 == [r EXCEPT !.downloads = Append(@, txt)]
    IN  IF disk = "ok"
        THEN [r1 EXCEPT
                !.files = [n \in DOMAIN @ \cup {pdf.name} |->
                              IF n = pdf.name THEN pdf.pages ELSE @[n]],
                !.downloads = Append(@, [file_name |-> pdf_stem, mime |-> "application/pdf",
                                         data |-> pdf.pages])]
        ELSE Except(r0, r1, DiskError)

\* if st.button("Generate Consent Agreement"): try ... except
GenerateHandler(r0, outcome, t1, t2, disk) ==
    IF ~outcome.ok THEN Except(r0, r0, outcome.error)
    ELSE Downloads(r0, Completed(r0, "Consent Agreement Generated Successfully!",
                                 outcome.content, t1),
                   outcome.content, "consent_agreement.txt", "consent_agreement", t2, disk)

\* if st.button("Analyze Document"): try ... except
AnalyzeHandler(r0, outcome, t1, t2, disk) ==
    IF ~outcome.ok THEN Except(r0, r0, outcome.error)
    ELSE Downloads(r0, Completed(r0, "Document Analysis Complete!", outcome.content, t1),
                   outcome.content, "document_analysis.txt", "document_analysis", t2, disk)

\* if st.button("DeepSeek Insights"): try ... except
InsightsHandler(r0, outcome, t1) ==
    IF ~outcome.ok THEN Except(r0, r0, outcome.error)
    ELSE Completed(r0, "Insights Generated!", outcome.content, t1)

----------------------------------------------------------------------------
(* The script *)

\* an initialisation that does not look at the session state
InitHistoryAlways(ss) == [k \in {"history"} |-> <<>>]

\* if "history" not in st.session_state: st.session_state.history = []
InitHistory(ss) ==
    IF "history" \in DOMAIN ss THEN ss ELSE [k \in {"history"} |-> <<>>]

\* uploaded_file.read().decode("utf-8") raises on bytes that are not UTF-8
Decodable(file) == file.present /\ file.utf8

\* the History section: one expander per record, in list order
HistoryPanel(history) ==
    [i \in 1..Len(history) |->
        [title |-> [label |-> "Response Generated on ", timestamp |-> history[i].timestamp],
         text |-> history[i].response]]

\* An exception that nothing catches ends the run where it is raised: Streamlit
\* shows it, and the rest of the script (the History section) is not run.
\* One run of the script: pressed is the button that caused it ("none" for a
\* page load or a widget change), sidebar the values of the selectboxes and of
\* the request text area, file the value of the uploader, request and
\* outcome the completion call of the pressed button and its result, t1 and
\* t2 the instants datetime.now() is read for the record and for the file.
RunScript(pressed, sidebar, file, request, outcome, t1, t2, disk) ==
    LET ss == InitHistory(session_state)
        r0 == Rendering(ss.history, files)
        r  == CASE pressed = "generate" -> GenerateHandler(r0, outcome, t1, t2, disk)
                [] pressed = "analyze"  -> AnalyzeHandler(r0, outcome, t1, t2, disk)
                [] pressed = "insights" -> InsightsHandler(r0, outcome, t1)
                [] OTHER -> r0
        exception == IF r.raised # None THEN r.raised
                     ELSE IF file.present /\ ~Decodable(file) THEN "UnicodeDecodeError"
                     ELSE None
        crashed == exception # None
    IN  /\ session_state' = [ss EXCEPT !.history = r.history]
        /\ files' = r.files
        /\ now' = t2
        /\ uploaded_file' = file
        /\ calls' = IF pressed = "none" THEN <<>> ELSE create(request, outcome)
        /\ ui' = [pressed |-> pressed,
                  language |-> sidebar.language,
                  compliance |-> sidebar.compliance,
                  user_prompt |-> sidebar.user_prompt,
                  success |-> r.success,
                  shown |-> r.shown,
                  downloads |-> r.downloads,
                  errors |-> r.errors,
                  exception |-> exception,
                  panel |-> IF crashed THEN <<>> ELSE HistoryPanel(r.history),
                  notice |-> ~crashed /\ r.history = <<>>]

\* the widgets as they are when the page is loaded
Sidebar(language, compliance, user_prompt) ==
    [language |-> language, compliance |-> compliance, user_prompt |-> user_prompt]
Defaults == Sidebar("English", "GDPR", DefaultPrompt)

NoRequest == Request(None, <<>>)
NoOutcome == [ok |-> FALSE, error |-> None]

\* a bound of the model: a run that stores a record needs room in the history
Room(outcome) ==
    outcome.ok =>
        ("history" \in DOMAIN session_state
            => Len(session_state.history) < MaxHistory)

Init ==
    /\ session_state = [k \in {} |-> <<>>]
    /\ files = [n \in {} |-> <<>>]
    /\ now = 0
    /\ uploaded_file = NoFile
    /\ calls = <<>>
    /\ ui = [pressed |-> None, language |-> None, compliance |-> None,
             user_prompt |-> <<>>, success |-> <<>>, shown |-> <<>>, downloads |-> <<>>,
             errors |-> <<>>, exception |-> None, panel |-> <<>>, notice |-> FALSE]

\* the page is loaded, or a widget changes: the script runs with no button pressed
Rerun ==
    \E file \in Uploads \cup {NoFile} :
        RunScript("none", Defaults, file, NoRequest, NoOutcome, now, now, "ok")

\* the buttons exist once the script has rendered them
Rendered == "history" \in DOMAIN session_state
Tab2Rendered == Rendered /\ Decodable(uploaded_file) /\ ui.exception = None

Disks == {"ok", "full"}

\* the Generate button is pressed, with the sidebar and the request drawn from
\* the given sets; d is the time between the two readings of the clock
Generate(languages, compliances, prompts, outcomes) ==
    /\ Rendered
    /\ \E language \in languages, compliance \in compliances, user_prompt \in prompts,
          outcome \in outcomes, d \in 0..1, disk \in Disks :
          /\ Room(outcome)
          /\ now + d <= MaxClock
          /\ RunScript("generate", Sidebar(language, compliance, user_prompt),
                       uploaded_file,
                       Request("deepseek/deepseek-r1",
                               GenerateMessages(language, compliance, user_prompt)),
                       outcome, now, now + d, disk)

\* the Analyze button is pressed
Analyze(outcomes) ==
    /\ Tab2Rendered
    /\ \E outcome \in outcomes, d \in 0..1, disk \in Disks :
          /\ Room(outcome)
          /\ now + d <= MaxClock
          /\ RunScript("analyze", Defaults, uploaded_file,
                       Request("deepseek/deepseek-chat", AnalyzeMessages(uploaded_file.text)),
                       outcome, now, now + d, disk)

\* the Insights button is pressed
Insights(outcomes) ==
    /\ Tab2Rendered
    /\ \E outcome \in outcomes :
          /\ Room(outcome)
          /\ RunScript("insights", Defaults, uploaded_file,
                       Request("deepseek/deepseek-r1", InsightsMessages(uploaded_file.text)),
                       outcome, now, now, "ok")

\* time passes between two runs
Tick ==
    /\ now < MaxClock
    /\ now' = now + 1
    /\ UNCHANGED <<session_state, files, uploaded_file, ui, calls>>

----------------------------------------------------------------------------
(* Spec: the runs of one session *)

GenerateConsent == Generate({"English"}, {"GDPR", "None"}, {DefaultPrompt}, Outcomes)
AnalyzeDocument == Analyze(Outcomes)
DeepSeekInsights == Insights(Outcomes)

Next == Rerun \/ GenerateConsent \/ AnalyzeDocument \/ DeepSeekInsights \/ Tick

Spec == Init /\ [][Next]_vars

----------------------------------------------------------------------------
(* SpecExport: the export of the first response of a session, for every    *)
(* text of ExportTexts                                                      *)

FirstRecord == Rendered /\ session_state.history = <<>>

ExportConsent ==
    FirstRecord /\ Generate({"English"}, {"GDPR"}, {DefaultPrompt}, Succeeds(ExportTexts))
ExportAnalysis == FirstRecord /\ Analyze(Succeeds(ExportTexts))

NextExport == Rerun \/ ExportConsent \/ ExportAnalysis

SpecExport == Init /\ [][NextExport]_vars

----------------------------------------------------------------------------
(* SpecPrompt: the first request of a session, for every setting of the    *)
(* sidebar                                                                  *)

PromptConsent ==
    FirstRecord /\ Generate(Languages, Compliances, Prompts, Succeeds(Responses))

NextPrompt == Rerun \/ PromptConsent

SpecPrompt == Init /\ [][NextPrompt]_vars

----------------------------------------------------------------------------
(* Observations used by the properties *)

Triggers == {"generate", "analyze", "insights"}

\* the session history, empty before the first run
hist == IF "history" \in DOMAIN session_state THEN session_state.history ELSE <<>>
hist_next == IF "history" \in DOMAIN session_state' THEN session_state'.history ELSE <<>>

\* this step is a run of the script that changed something other than the clock
RunStep == ui' # ui \/ calls' # calls \/ session_state' # session_state

IsPrefix(a, b) == Len(a) <= Len(b) /\ SubSeq(b, 1, Len(a)) = a

Contains(content, chunk) == \E i \in 1..Len(content) : content[i] = chunk

\* the documents a rendering offers for download, by kind
Offered(u, mime) ==
    {u.downloads[i].data : i \in {j \in 1..Len(u.downloads) : u.downloads[j].mime = mime}}
PdfOffered == Offered(ui, "application/pdf")

\* the last run was a press of one of buttons whose completion call returned
Answered(buttons) ==
    /\ ui.pressed \in buttons
    /\ Len(calls) >= 1
    /\ calls[1].outcome.ok

\* this step is a run for one of buttons whose completion call returned
AnsweredStep(buttons) ==
    /\ RunStep
    /\ ui'.pressed \in buttons
    /\ Len(calls') >= 1
    /\ calls'[1].outcome.ok

\* every text operation of every page of every document written so far
DrawnOps ==
    UNION {UNION {{files[n][p][k] : k \in 1..Len(files[n][p])} : p \in 1..Len(files[n])} :
              n \in DOMAIN files}

----------------------------------------------------------------------------
(* The lines of a text, stated from the positions of its line breaks *)

BreaksOf(text) == {i \in 1..Len(text) : text[i] = "\n"}

\* the position of the k-th line break; 0 before the first line and Len + 1
\* after the last
NthBreak(text, k) ==
    IF k = 0 THEN 0
    ELSE IF k > Cardinality(BreaksOf(text)) THEN Len(text) + 1
    ELSE CHOOSE i \in BreaksOf(text) : Cardinality({j \in BreaksOf(text) : j < i}) = k - 1

LineCount(text) == Cardinality(BreaksOf(text)) + 1

\* the first 90 characters of the k-th line
ExpectedLine(text, k) ==
    LET first == NthBreak(text, k - 1) + 1
        last == NthBreak(text, k) - 1
        len == IF last - first + 1 > 90 THEN 90 ELSE last - first + 1
    IN  [i \in 1..len |-> text[first + i - 1]]

\* the texts of a page, read from the top of the page down
TopDown(page) ==
    [k \in 1..Len(page) |->
        page[CHOOSE i \in 1..Len(page) :
                Cardinality({j \in 1..Len(page) : page[j].y > page[i].y}) = k - 1].text]

RECURSIVE ReadFrom(_, _)
ReadFrom(pages, p) ==
    IF p > Len(pages) THEN <<>> ELSE TopDown(pages[p]) \o ReadFrom(pages, p + 1)

\* the lines of a document, in page order and from the top of each page down
ReadBack(pages) == ReadFrom(pages, 1)

----------------------------------------------------------------------------
(* Properties *)

Exporting == {"generate", "analyze"}

\* C1 (Spec): when the completion call of a pressed button fails, the run
\* leaves the session state, its history and the directory as they were,
\* offers no download, shows exactly one error message, which carries the
\* text of the error, and the exception does not leave the handler (the only
\* uncaught exception a run can show is the decoding error of the upload).
C1_FailedCallLeavesNoTrace ==
    [][(/\ RunStep
        /\ ui'.pressed \in Triggers
        /\ Len(calls') >= 1
        /\ ~calls'[1].outcome.ok)
       => /\ session_state' = session_state
          /\ hist_next = hist
          /\ files' = files
          /\ ui'.downloads = <<>>
          /\ ui'.success = <<>>
          /\ Len(ui'.errors) = 1
          /\ Contains(ui'.errors[1], calls'[1].outcome.error)
          /\ ui'.exception \in {None, "UnicodeDecodeError"}]_vars

\* a failed call in a session that already has a record and an export
C1_Witness ==
    /\ ui.pressed \in Triggers
    /\ Len(calls) = 1
    /\ ~calls[1].outcome.ok
    /\ Len(ui.errors) = 1
    /\ Len(hist) >= 1
    /\ DOMAIN files # {}

\* C2 (Spec): every record of the history has a non-empty response text.
C2_NoEmptyResponse == \A i \in 1..Len(hist) : hist[i].response # <<>>

\* C3 (Spec): the history only grows at its end and is never initialised
\* again: every step keeps the former history as a prefix, a run appends one
\* record, holding the response, exactly when its completion call returned,
\* and the history panel lists the records in the order of the history.
C3_AppendOnly ==
    [][/\ IsPrefix(hist, hist_next)
       /\ Rendered => Rendered'
       /\ RunStep =>
            IF ui'.pressed \in Triggers /\ calls'[1].outcome.ok
            THEN /\ Len(hist_next) = Len(hist) + 1
                 /\ hist_next[Len(hist_next)].response = calls'[1].outcome.content
            ELSE hist_next = hist
       /\ ui'.exception = None =>
            /\ Len(ui'.panel) = Len(hist_next)
            /\ \A i \in 1..Len(hist_next) :
                  /\ ui'.panel[i].text = hist_next[i].response
                  /\ ui'.panel[i].title.timestamp = hist_next[i].timestamp]_vars

\* two records with different responses, both listed
C3_Witness ==
    /\ Len(hist) = 2
    /\ hist[1].response # hist[2].response
    /\ Len(ui.panel) = 2
    /\ ui.panel[2].text = hist[2].response

\* C4 (SpecExport): no line of an exported document is drawn below the lower
\* edge of the page, or above its upper edge.
C4_NoLineOffPage == \A op \in DrawnOps : op.y >= PageBottom /\ op.y <= PageHeight

\* C5 (SpecExport): the document exported for a non-empty response has at
\* least one page, and its lines read in page order and from the top down are
\* the lines of the response, each cut to its first 90 characters, in order.
C5_ReadBackLines ==
    (Answered(Exporting) /\ calls[1].outcome.content # <<>>) =>
        \A doc \in PdfOffered :
            LET text == calls[1].outcome.content
            IN  /\ Len(doc) >= 1
                /\ ReadBack(doc) = [k \in 1..LineCount(text) |-> ExpectedLine(text, k)]
                /\ \E n \in DOMAIN files : files[n] = doc

\* the export of a response of two lines that are longer than 90 characters
C5_Witness ==
    /\ Answered(Exporting)
    /\ LineCount(calls[1].outcome.content) = 2
    /\ Len(calls[1].outcome.content) > 2 * 90
    /\ \E doc \in PdfOffered : Len(doc[1]) = 2 /\ Len(doc[1][2].text) = 90

\* C6 as stated (SpecExport): the document exported for the empty response is
\* one page without any text operation.
C6_EmptyPageNoDraw ==
    (Answered(Exporting) /\ calls[1].outcome.content = <<>>) =>
        \A doc \in PdfOffered : Len(doc) = 1 /\ Len(doc[1]) = 0

\* C6 as amended (SpecExport): the export of the empty response fails only
\* when the file cannot be written, and the document is one page with a single
\* text operation, which draws the empty string at the top position.
C6_EmptyPageOneEmptyDraw ==
    (Answered(Exporting) /\ calls[1].outcome.content = <<>>) =>
        /\ \A i \in 1..Len(ui.errors) : Contains(ui.errors[i], DiskError)
        /\ ui.errors = <<>> => PdfOffered # {}
        /\ \A doc \in PdfOffered :
              /\ Len(doc) = 1
              /\ Len(doc[1]) = 1
              /\ doc[1][1].text = <<>>
              /\ doc[1][1].y = PageTop

\* the empty response has been exported
C6_Witness ==
    /\ Answered(Exporting)
    /\ calls[1].outcome.content = <<>>
    /\ ui.errors = <<>>
    /\ PdfOffered # {}

C8_PromptEmbedsSettings ==
    ui.pressed = "generate" =>
        /\ ui.language \in Languages
        /\ ui.compliance \in Compliances
        /\ Len(calls) = 1
        /\ LET messages == calls[1].request.messages
           IN  /\ Len(messages) = 2
               /\ messages[1].role = "system"
               /\ Contains(messages[1].content, ui.language)
               /\ Contains(messages[1].content, ui.compliance)
               /\ messages[2].role = "user"
               /\ messages[2].content = ui.user_prompt

\* a request in the last language with the last regime and a prompt of two lines
C8_Witness ==
    /\ ui.pressed = "generate"
    /\ ui.language = "Chinese"
    /\ ui.compliance = "None"
    /\ ui.user_prompt = Text(2, 1)
    /\ Len(calls) = 1

\* C9 (Spec): a successful Generate appends its record after the earlier ones
\* with a timestamp that is not earlier, offers its own response as text and
\* as a document, and leaves every document written before as it was.
C9_ExportsNeverOverwritten ==
    [][(AnsweredStep({"generate"}) /\ ui'.errors = <<>>)
       => /\ Len(hist_next) = Len(hist) + 1
          /\ IsPrefix(hist, hist_next)
          /\ hist_next[Len(hist_next)].response = calls'[1].outcome.content
          /\ \A i \in 1..Len(hist) :
                hist[i].timestamp <= hist_next[Len(hist_next)].timestamp
          /\ Offered(ui', "text/plain") = {calls'[1].outcome.content}
          /\ Offered(ui', "application/pdf") # {}
          /\ \A n \in DOMAIN files : n \in DOMAIN files' /\ files'[n] = files[n]]_vars

\* C10 (Spec): when Generate or Analyze receives a response and the document
\* cannot be written, the run has appended exactly one record, holding the
\* response, has offered the text download, shows the success message and
\* exactly one error message, and writes no file.
C10_RecordKeptWhenExportFails ==
    [][(AnsweredStep(Exporting) /\ Offered(ui', "application/pdf") = {})
       => /\ Len(hist_next) = Len(hist) + 1
          /\ IsPrefix(hist, hist_next)
          /\ hist_next[Len(hist_next)].response = calls'[1].outcome.content
          /\ Offered(ui', "text/plain") = {calls'[1].outcome.content}
          /\ Len(ui'.success) = 1
          /\ Len(ui'.errors) = 1
          /\ ui'.exception \in {None, "UnicodeDecodeError"}
          /\ files' = files]_vars

\* a second record stored by a run whose export failed
C10_Witness ==
    /\ Answered(Exporting)
    /\ PdfOffered = {}
    /\ Len(ui.errors) = 1
    /\ Len(hist) = 2
    /\ hist[2].response = calls[1].outcome.content

====
